---- MODULE Spec2Model ----
\* Job-run state machine and ingestion pipeline of brand-pulse:
\* ScraperJobsService.triggerJob, ApifyWebhookController.handleWebhook and
\* MentionsService.processApifyRunData over the relational store and the
\* scraping provider.  Handlers are split at their awaits; every store or
\* provider operation is one atomic step.
EXTENDS Integers, Sequences, FiniteSets, TLC

----------------------------------------------------------------------------
\* Bounds of the model

MaxRuns == 2            \* scraper_runs rows
MaxApifyRuns == 2       \* runs accepted by the provider
MaxDeliveries == 2      \* webhook requests received
MaxTriggers == 2        \* triggerJob calls
MaxStoreFaults == 1     \* store operations that answer with an error
MaxClock == 2           \* distinct values Date.now() can return

\* Program constants
MaxPostUrls == 10       \* .slice(0, 10) of the post URLs

NoRun == 0              \* null apify_run_id / no row
NullCount == 0 - 1      \* null items_found / items_processed / items_failed

WebhookSlots == 1 .. 2  \* concurrently handled webhook requests
Tenants == 1 .. 2
JobIds == 1 .. 3
UnknownJob == 4         \* an id that no scraper_jobs row has
Clock == 1 .. MaxClock

----------------------------------------------------------------------------
\* Strings are sequences of character codes

Slash == 47
Question == 63
Amp == 38
StrReviews == <<47, 114, 101, 118, 105, 101, 119, 115, 47>>   \* "/reviews/"
StrPosts == <<47, 112, 111, 115, 116, 115, 47>>               \* "/posts/"
StrIdEq == <<105, 100, 61>>                                   \* "id="

StrA1 == <<97, 49>>                                           \* "a1"
StrB2 == <<98, 50>>                                           \* "b2"
StrReviewUrl == StrReviews \o StrA1                           \* "/reviews/a1"
StrTitle == <<78, 105, 99, 101, 33>>                          \* "Nice!"

\* [a-zA-Z0-9_-]
IsWordChar(c) ==
    \/ c \in 97 .. 122
    \/ c \in 65 .. 90
    \/ c \in 48 .. 57
    \/ c = 95
    \/ c = 45

HasAt(s, lit, i) ==
    /\ i + Len(lit) - 1 <= Len(s)
    /\ \A k \in 1 .. Len(lit) : s[i + k - 1] = lit[k]

\* the longest run of characters outside stop, from position i
RECURSIVE RunFrom(_, _, _)
RunFrom(s, i, stop) ==
    IF i > Len(s) \/ s[i] \in stop THEN <<>>
    ELSE <<s[i]>> \o RunFrom(s, i + 1, stop)

\* /lit([^stop]+)/ : the capture of the leftmost match, <<>> when none
MatchAfter(s, lit, stop) ==
    LET hits == {i \in 1 .. Len(s) :
                    HasAt(s, lit, i) /\ RunFrom(s, i + Len(lit), stop) # <<>>}
    IN IF hits = {} THEN <<>>
       ELSE LET i == CHOOSE x \in hits : \A y \in hits : x <= y
            IN RunFrom(s, i + Len(lit), stop)

\* /\/([a-zA-Z0-9_-]+)$/ : the capture, <<>> when none
MatchTail(s) ==
    LET hits == {i \in 1 .. Len(s) :
                    /\ s[i] = Slash
                    /\ i < Len(s)
                    /\ \A k \in (i + 1) .. Len(s) : IsWordChar(s[k])}
    IN IF hits = {} THEN <<>>
       ELSE LET i == CHOOSE x \in hits : \A y \in hits : x <= y
            IN SubSeq(s, i + 1, Len(s))

\* simpleHash: hash = ((hash << 5) - hash) + char, kept to 32 bits; the 32-bit
\* value is held as <<high 16 bits, low 16 bits>>
RECURSIVE HashFrom(_, _, _)
HashFrom(s, i, h) ==
    IF i > Len(s) THEN h
    ELSE LET lo == 31 * h[2] + s[i]
             hi == 31 * h[1] + (lo \div 65536)
         IN HashFrom(s, i + 1, <<hi % 65536, lo % 65536>>)

\* Math.abs of the signed 32-bit value
Abs32(h) ==
    IF h[1] < 32768 THEN h
    ELSE IF h[2] = 0 THEN <<65536 - h[1], 0>>
    ELSE <<65535 - h[1], 65536 - h[2]>>

simpleHash(str) == Abs32(HashFrom(str, 1, <<0, 0>>))

\* A source id is a literal string, "hash_<h>_<index>" or
\* "generated_<now>_<index>"
LitId(s) == [kind |-> "lit", lit |-> s, num |-> <<0, 0>>, idx |-> 0]
HashId(h, index) == [kind |-> "hash", lit |-> <<>>, num |-> h, idx |-> index]
GenId(now, index) ==
    [kind |-> "generated", lit |-> <<>>, num |-> <<0, now>>, idx |-> index]

generateSourceId(source, index, now) ==
    IF source = <<>> THEN GenId(now, index)
    ELSE IF MatchAfter(source, StrReviews, {Slash, Question}) # <<>>
         THEN LitId(MatchAfter(source, StrReviews, {Slash, Question}))
    ELSE IF MatchAfter(source, StrPosts, {Slash, Question}) # <<>>
         THEN LitId(MatchAfter(source, StrPosts, {Slash, Question}))
    ELSE IF MatchTail(source) # <<>> THEN LitId(MatchTail(source))
    ELSE IF MatchAfter(source, StrIdEq, {Amp}) # <<>>
         THEN LitId(MatchAfter(source, StrIdEq, {Amp}))
    ELSE HashId(simpleHash(source), index)

----------------------------------------------------------------------------
\* Raw items of the provider's datasets: id, url, title are strings (<<>>
\* when the field is missing), text tells whether the item has content

RawItem(id, url, title, text) ==
    [id |-> id, url |-> url, title |-> title, text |-> text]

ItemA == RawItem(StrA1, <<>>, <<>>, TRUE)
ItemUrl == RawItem(<<>>, StrReviewUrl, <<>>, TRUE)
ItemBare == RawItem(<<>>, <<>>, <<>>, TRUE)
ItemTitle == RawItem(<<>>, <<>>, StrTitle, TRUE)
ItemB == RawItem(StrB2, <<>>, <<>>, TRUE)
ItemEmpty == RawItem(StrB2, <<>>, <<>>, FALSE)

Datasets ==
    { <<>>,
      <<ItemBare, ItemUrl, ItemEmpty>>,
      <<ItemA, ItemUrl>> }

\* a || b for strings
OrElse(a, b) == IF a # <<>> THEN a ELSE b

\* item => sourceId of transformApifyDataToMentions (index is 0-based)
SourceIdOf(item, index, now) ==
    IF item.id # <<>> THEN LitId(item.id)
    ELSE generateSourceId(OrElse(item.url, item.title), index, now)

----------------------------------------------------------------------------
\* State

VARIABLES
    jobs,          \* scraper_jobs rows, by job id
    runs,          \* scraper_runs rows; the row id is the position
    mentions,      \* scraped_mentions rows; the row id is the position
    apifyRuns,     \* the provider's runs; the run handle is the position
    immediates,    \* callbacks handed to setImmediate, in scheduling order
    tj,            \* the triggerJob request in progress
    hw,            \* the handleWebhook requests in progress, by slot
    response,      \* what the step just taken answered to its caller, if it did
    deliveries,    \* webhook requests received so far
    triggers,      \* triggerJob calls so far
    storeFaults,   \* store operations that have answered with an error
    lastHandled,   \* history: the webhook request that was handled last
    tasks,         \* the setImmediate callbacks that run, by position in
                   \* immediates
    sentiments,    \* sentiment_analysis rows
    tags           \* mention_tags rows

vars == <<jobs, runs, mentions, apifyRuns, immediates, tj, hw, response,
          deliveries, triggers, storeFaults, lastHandled, tasks, sentiments,
          tags>>

\* what the enrichment tasks work on
enrichment == <<tasks, sentiments, tags>>

EventTypes ==
    {"ACTOR.RUN.SUCCEEDED", "ACTOR.RUN.FAILED", "ACTOR.RUN.ABORTED",
     "ACTOR.RUN.TIMED_OUT"}
\* request bodies <<eventType, eventData.actorRunId>>: the handled event types
\* for the handles the provider can have given out, one event type that is not
\* handled, a handle of another environment (MaxApifyRuns + 1), a body
\* without eventType and one without actorRunId
Payloads ==
    (EventTypes \X (1 .. MaxApifyRuns))
    \cup {<<"ACTOR.RUN.CREATED", 1>>,
          <<"ACTOR.RUN.SUCCEEDED", MaxApifyRuns + 1>>,
          <<"", 1>>,
          <<"ACTOR.RUN.SUCCEEDED", NoRun>>}

\* the scraper_jobs table: job 2 is the instagram job of tenant 2, job 3 an
\* inactive job of tenant 1
JobRow(j) ==
    [tenant_id |-> IF j = 2 THEN 2 ELSE 1,
     source_type |-> IF j = 2 THEN "instagram" ELSE "google_reviews",
     is_active |-> j # 3,
     next_run_at |-> FALSE]

\* err: the message of the error on its way to the caller; missed: history,
\* the provider's callback for the run this call started was answered
\* 'ignored'
IdleTrigger ==
    [pc |-> "idle", id |-> 0, run |-> NoRun, apify |-> NoRun, err |-> "",
     missed |-> FALSE]

\* history: what the comparison of a duplicate delivery looks at
NoneHandled ==
    [run |-> NoRun, event |-> "", status |-> "", error_message |-> "",
     items |-> <<NullCount, NullCount, NullCount>>, mentions |-> <<>>]

Handled(rs, ms, r, event) ==
    [run |-> r, event |-> event, status |-> rs[r].status,
     error_message |-> rs[r].error_message,
     items |-> <<rs[r].items_found, rs[r].items_processed,
                 rs[r].items_failed>>,
     mentions |-> ms]

\* event, handle, run, md: payload and the scraperRun read by the lookup;
\* found, ins: apifyData.length and insertedMentions.length; crun, newRun:
\* commentsRun.id and newRun.id; clean, base: history
IdleSlot ==
    [pc |-> "idle", event |-> "", handle |-> NoRun, run |-> NoRun, md |-> {},
     found |-> 0, ins |-> 0, crun |-> NoRun, newRun |-> NoRun,
     clean |-> FALSE, base |-> NoneHandled]

NoDelivery == [run |-> NoRun, event |-> ""]

\* arg: what the caller sent, <<id, tenantId>> or <<eventType, actorRunId>>
\* error: the message of the exception, for the exceptions the model tells
\* apart by their message
NoResponse == [op |-> "", result |-> "", arg |-> <<>>, error |-> ""]
Response(op, res, arg) ==
    [op |-> op, result |-> res, arg |-> arg, error |-> ""]
Thrown(op, res, arg, msg) ==
    [op |-> op, result |-> res, arg |-> arg, error |-> msg]

Init ==
    /\ jobs = [j \in JobIds |-> JobRow(j)]
    /\ runs = <<>>
    /\ mentions = <<>>
    /\ apifyRuns = <<>>
    /\ immediates = <<>>
    /\ tj = IdleTrigger
    /\ hw = [w \in WebhookSlots |-> IdleSlot]
    /\ response = NoResponse
    /\ deliveries = 0
    /\ triggers = 0
    /\ storeFaults = 0
    /\ lastHandled = NoDelivery
    /\ tasks = <<>>
    /\ sentiments = <<>>
    /\ tags = <<>>

----------------------------------------------------------------------------
\* The store and the provider

\* a store operation answers with data (TRUE) or with an error (FALSE)
StoreOutcomes == IF storeFaults < MaxStoreFaults THEN BOOLEAN ELSE {TRUE}
StoreAnswer(ok) == storeFaults' = IF ok THEN storeFaults ELSE storeFaults + 1

\* a provider call succeeds (TRUE) or throws (FALSE)
ProviderOutcomes == BOOLEAN

\* an insert that stores every new row as running
NewRunStarted(job, tenant, status, apify, started, md) ==
    [job_id |-> job, tenant_id |-> tenant, status |-> "running",
     apify_run_id |-> apify, started_at |-> started, finished_at |-> FALSE,
     error_message |-> "", items_found |-> NullCount,
     items_processed |-> NullCount, items_failed |-> NullCount,
     metadata |-> md]

NewRun(job, tenant, status, apify, started, md) ==
    [job_id |-> job, tenant_id |-> tenant, status |-> status,
     apify_run_id |-> apify, started_at |-> started, finished_at |-> FALSE,
     error_message |-> "", items_found |-> NullCount,
     items_processed |-> NullCount, items_failed |-> NullCount,
     metadata |-> md]

\* runOptions.webhooks of startScraperRun
WebhooksFor(hasUrl) ==
    IF hasUrl THEN {"ACTOR.RUN.SUCCEEDED", "ACTOR.RUN.FAILED"} ELSE {}

NewApifyRun(actor, hasUrl, nUrls) ==
    [actor |-> actor, status |-> "RUNNING", items |-> <<>>,
     webhooks |-> WebhooksFor(hasUrl), startUrls |-> nUrls,
     abortAttempted |-> FALSE]

\* history: the handling of a request is clean while no operation of it has
\* failed and no other request has started
Disturbed(slots) == [x \in WebhookSlots |-> [slots[x] EXCEPT !.clean = FALSE]]

----------------------------------------------------------------------------
\* ScraperJobsService.triggerJob(id, tenantId)

\* a findOne without its .eq('tenant_id', ...) filter
JobFoundAnyTenant(id, tenantId) == id \in JobIds

\* findOne: .eq('id', id).eq('tenant_id', tenantId).single()
JobFound(id, tenantId) == id \in JobIds /\ jobs[id].tenant_id = tenantId

TriggerMetadata == {"triggered_manually", "webhook_url"}

TriggerJob_Insert(id, tenantId) ==
    /\ tj.pc = "idle"
    /\ UNCHANGED enrichment
    /\ triggers < MaxTriggers
    /\ triggers' = triggers + 1
    /\ \E found \in StoreOutcomes :
         IF ~(found /\ JobFound(id, tenantId))
         THEN /\ StoreAnswer(found)
              /\ response' = Response("triggerJob", "NotFound",
                                      <<id, tenantId>>)
              /\ UNCHANGED <<tj, runs, hw, lastHandled>>
         ELSE IF ~jobs[id].is_active
         THEN /\ response' = Response("triggerJob", "Forbidden",
                                      <<id, tenantId>>)
              /\ UNCHANGED <<tj, runs, storeFaults, hw, lastHandled>>
         ELSE \E ok \in StoreOutcomes :
                /\ Len(runs) < MaxRuns
                /\ StoreAnswer(ok)
                /\ hw' = Disturbed(hw)
                /\ lastHandled' = NoDelivery
                /\ IF ok
                   THEN /\ runs' = Append(runs,
                              NewRun(id, tenantId, "scheduled", NoRun, FALSE,
                                     TriggerMetadata))
                        /\ tj' = [IdleTrigger EXCEPT !.pc = "t_start",
                                                     !.id = id,
                                                     !.run = Len(runs) + 1]
                        /\ response' = NoResponse
                   ELSE /\ response' = Response("triggerJob", "BadRequest",
                                                <<id, tenantId>>)
                        /\ UNCHANGED <<tj, runs>>
    /\ UNCHANGED <<jobs, mentions, apifyRuns, immediates, deliveries>>

\* the messages of the errors triggerJob can meet after the insert
StartError == "Failed to start scraper"
UpdateError == "Failed to update scraper run"
AbortError == "Failed to abort run"

\* `Failed to start Apify run: ${apifyError.message}`
StartFailureMessage(err) ==
    CASE err = StartError -> "Failed to start Apify run: Failed to start scraper"
      [] err = UpdateError ->
           "Failed to start Apify run: Failed to update scraper run"
      [] OTHER -> "Failed to start Apify run: Failed to abort run"

\* apifyService.startScraperRun(job.source_type, job.config, webhookUrl)
TriggerJob_Start ==
    /\ tj.pc = "t_start"
    /\ UNCHANGED enrichment
    /\ \E ok \in ProviderOutcomes :
         IF ok
         THEN /\ Len(apifyRuns) < MaxApifyRuns
              /\ apifyRuns' = Append(apifyRuns,
                                NewApifyRun(jobs[tj.id].source_type, TRUE, 0))
              /\ tj' = [tj EXCEPT !.pc = "t_update",
                                  !.apify = Len(apifyRuns) + 1]
         ELSE /\ apifyRuns' = apifyRuns
              /\ tj' = [tj EXCEPT !.pc = "t_fail", !.err = StartError]
    /\ response' = NoResponse
    /\ UNCHANGED <<jobs, runs, mentions, immediates, hw,
                   deliveries, triggers, storeFaults, lastHandled>>

\* update of the run with the provider's handle, update of the job's
\* next_run_at (its error is not looked at), return updatedRun
TriggerJob_Update ==
    /\ tj.pc = "t_update"
    /\ UNCHANGED enrichment
    /\ \E ok \in StoreOutcomes :
         IF ok
         THEN /\ runs' = [runs EXCEPT ![tj.run] =
                   [@ EXCEPT !.status = "running",
                             !.apify_run_id = tj.apify,
                             !.started_at = TRUE,
                             !.metadata = TriggerMetadata \cup
                                 {"apify_run_id", "webhook_url",
                                  "apify_actor_id"}]]
              /\ \E okJob \in StoreOutcomes :
                   /\ StoreAnswer(okJob)
                   /\ jobs' = IF okJob
                              THEN [jobs EXCEPT ![tj.id].next_run_at = TRUE]
                              ELSE jobs
              /\ tj' = IdleTrigger
              /\ response' = Response("triggerJob", "ok",
                                      <<tj.id, jobs[tj.id].tenant_id>>)
         ELSE /\ StoreAnswer(ok)
              /\ tj' = [tj EXCEPT !.pc = "t_abort", !.err = UpdateError]
              /\ response' = NoResponse
              /\ UNCHANGED <<runs, jobs>>
    /\ lastHandled' = NoDelivery
    /\ UNCHANGED <<mentions, apifyRuns, immediates, hw, deliveries, triggers>>

\* apifyService.abortRun: the provider moves a run that has not ended to
\* ABORTED; a failure of the call is swallowed
AbortRun(h, ok) ==
    apifyRuns' = [apifyRuns EXCEPT ![h] =
        [@ EXCEPT !.abortAttempted = TRUE,
                  !.status = IF ok /\ @ = "RUNNING" THEN "ABORTED" ELSE @]]

\* an abort whose failure is thrown on in place of the update error
AbortErrorWins(err, ok) == IF ok THEN err ELSE AbortError

\* try { await abortRun } catch (abortError) { warn }: the error on its way
\* stays the update error
AfterAbort(err, ok) == err

TriggerJob_Abort ==
    /\ tj.pc = "t_abort"
    /\ UNCHANGED enrichment
    /\ \E ok \in ProviderOutcomes :
         /\ AbortRun(tj.apify, ok)
         /\ tj' = [tj EXCEPT !.pc = "t_fail", !.err = AfterAbort(tj.err, ok)]
    /\ response' = NoResponse
    /\ UNCHANGED <<jobs, runs, mentions, immediates, hw,
                   deliveries, triggers, storeFaults, lastHandled>>

\* a catch that rethrows without marking the run
TriggerJob_Rethrow ==
    /\ tj.pc = "t_fail"
    /\ UNCHANGED enrichment
    /\ tj' = IdleTrigger
    /\ response' = Thrown("triggerJob", "BadRequest",
                          <<tj.id, jobs[tj.id].tenant_id>>, tj.err)
    /\ lastHandled' = NoDelivery
    /\ UNCHANGED <<jobs, runs, mentions, apifyRuns, immediates, hw,
                   deliveries, triggers, storeFaults>>

\* catch (apifyError): mark the run failed and rethrow
TriggerJob_Fail ==
    /\ tj.pc = "t_fail"
    /\ UNCHANGED enrichment
    /\ \E ok \in StoreOutcomes :
         /\ StoreAnswer(ok)
         /\ runs' = IF ok
                    THEN [runs EXCEPT ![tj.run] =
                            [@ EXCEPT !.status = "failed",
                                      !.error_message =
                                          StartFailureMessage(tj.err),
                                      !.finished_at = TRUE]]
                    ELSE runs
    /\ tj' = IdleTrigger
    /\ response' = Thrown("triggerJob", "BadRequest",
                          <<tj.id, jobs[tj.id].tenant_id>>, tj.err)
    /\ lastHandled' = NoDelivery
    /\ UNCHANGED <<jobs, mentions, apifyRuns, immediates, hw, deliveries,
                   triggers>>

----------------------------------------------------------------------------
\* The scraping provider

\* a run ends; the dataset of a run that succeeded is fixed from then on
ApifyRunEnds(h, status, items) ==
    /\ h \in 1 .. Len(apifyRuns)
    /\ UNCHANGED enrichment
    /\ apifyRuns[h].status = "RUNNING"
    /\ status = "SUCCEEDED" \/ items = <<>>
    /\ apifyRuns' = [apifyRuns EXCEPT ![h] =
                        [@ EXCEPT !.status = status, !.items = items]]
    /\ response' = NoResponse
    /\ UNCHANGED <<jobs, runs, mentions, immediates, tj, hw,
                   deliveries, triggers, storeFaults, lastHandled>>

\* apifyService.getRunData answers only for a run whose status is SUCCEEDED
CanFetch(h) == apifyRuns[h].status = "SUCCEEDED"

----------------------------------------------------------------------------
\* MentionsService: normalization and the upsert

\* transformApifyDataToMentions: map with the 0-based index, then drop the
\* items without content
RECURSIVE TransformFrom(_, _, _, _, _, _)
TransformFrom(items, i, tenant, source, runId, now) ==
    IF i > Len(items) THEN <<>>
    ELSE LET m == [tenant_id |-> tenant, source_type |-> source,
                   source_id |-> SourceIdOf(items[i], i - 1, now),
                   job_run_id |-> runId]
             rest == TransformFrom(items, i + 1, tenant, source, runId, now)
         IN IF items[i].text THEN <<m>> \o rest ELSE rest

transformApifyDataToMentions(items, tenant, source, runId, now) ==
    TransformFrom(items, 1, tenant, source, runId, now)

\* onConflict: 'tenant_id,source_type,source_id'
KeyOf(m) == <<m.tenant_id, m.source_type, m.source_id>>

\* the row of the table that a candidate conflicts with, 0 when none
ConflictRow(rows, c) ==
    IF \E i \in 1 .. Len(rows) : KeyOf(rows[i]) = KeyOf(c)
    THEN CHOOSE i \in 1 .. Len(rows) : KeyOf(rows[i]) = KeyOf(c)
    ELSE 0

\* an insert that knows no conflict target
InsertRows(rows, cands) == rows \o cands

\* upsert with ignoreDuplicates: false: a conflicting row is overwritten, any
\* other candidate is appended
RECURSIVE UpsertRows(_, _)
UpsertRows(rows, cands) ==
    IF cands = <<>> THEN rows
    ELSE LET c == Head(cands)
             i == ConflictRow(rows, c)
         IN UpsertRows(IF i = 0 THEN Append(rows, c)
                       ELSE [rows EXCEPT ![i] = c],
                       Tail(cands))

\* the statement is rejected when two candidates of the batch share a key
\* (ON CONFLICT DO UPDATE cannot affect a row a second time)
BatchConflict(cands) ==
    \E i, k \in 1 .. Len(cands) : i # k /\ KeyOf(cands[i]) = KeyOf(cands[k])

\* .select('*') after the upsert: every row the statement wrote, inserted or
\* updated, as row ids in candidate order
UpsertReturned(before, after, cands) ==
    [k \in 1 .. Len(cands) |->
        CHOOSE i \in 1 .. Len(after) : KeyOf(after[i]) = KeyOf(cands[k])]

\* triggerSentimentAnalysis and triggerAITagging: one setImmediate each
FanOut(ids) ==
    <<[kind |-> "sentiment", mentions |-> ids],
      [kind |-> "tagging", mentions |-> ids]>>

\* a fan-out that is awaited: every callback that has not ended
AwaitedAll(ts) == {k \in 1 .. Len(ts) : ts[k].pc # "done"}

\* the callbacks processApifyRunData waits for before it goes on:
\* triggerSentimentAnalysis and triggerAITagging are called without await and
\* hand their work to setImmediate
Awaited(ts) == {}

----------------------------------------------------------------------------
\* ApifyWebhookController.handleWebhook(payload)

\* a switch that sends a run back to work when it did not succeed
StatusOfRetrying(event) ==
    IF event = "ACTOR.RUN.SUCCEEDED" THEN "completed" ELSE "running"

\* switch (payload.eventType)
StatusOf(event) ==
    IF event = "ACTOR.RUN.SUCCEEDED" THEN "completed" ELSE "failed"

\* a message that does not look at the event type
ErrorMessageFixed(event) == "Apify run failed"

\* `Apify run ${eventType.toLowerCase().replace('actor.run.', '')}`
ErrorMessageOf(event) ==
    CASE event = "ACTOR.RUN.FAILED" -> "Apify run failed"
      [] event = "ACTOR.RUN.ABORTED" -> "Apify run aborted"
      [] event = "ACTOR.RUN.TIMED_OUT" -> "Apify run timed_out"
      [] OTHER -> ""

ReceiptKeys == {"apify_webhook_received", "webhook_event",
                "webhook_received_at"}

\* a lookup without its .eq('apify_run_id', ...) filter
RunsUnfiltered(handle) == 1 .. Len(runs)

\* .eq('apify_run_id', actorRunId).single(): the row when exactly one matches
RunsWithHandle(handle) ==
    {r \in 1 .. Len(runs) : runs[r].apify_run_id = handle}

Quiet(w) ==
    /\ tj.pc = "idle"
    /\ \A x \in WebhookSlots \ {w} : hw[x].pc = "idle"

\* the request returns or throws res; history: a request handled alone and
\* without a failed operation is the one a duplicate delivery is compared with
Finish(w, res, fault) ==
    /\ hw' = [hw EXCEPT ![w] = IdleSlot]
    /\ response' = Response("handleWebhook", res,
                            <<hw[w].event, hw[w].handle>>)
    /\ lastHandled' =
         IF res = "success" /\ hw[w].clean /\ ~fault
         THEN [run |-> hw[w].run, event |-> hw[w].event]
         ELSE NoDelivery

\* the event the provider sends for a run that ended with status
EventOf(status) ==
    CASE status = "SUCCEEDED" -> "ACTOR.RUN.SUCCEEDED"
      [] status = "FAILED" -> "ACTOR.RUN.FAILED"
      [] status = "ABORTED" -> "ACTOR.RUN.ABORTED"
      [] status = "TIMED-OUT" -> "ACTOR.RUN.TIMED_OUT"
      [] OTHER -> ""

\* the request is the provider's callback for the end of run handle
IsCallbackOf(event, handle) ==
    /\ handle \in 1 .. Len(apifyRuns)
    /\ event = EventOf(apifyRuns[handle].status)
    /\ event \in apifyRuns[handle].webhooks

\* validation, lookup of the run by apify_run_id, choice of the update
HandleWebhook_Find(w, event, handle) ==
    /\ hw[w].pc = "idle"
    /\ UNCHANGED enrichment
    /\ \A x \in WebhookSlots : x < w => hw[x].pc # "idle"
    /\ deliveries < MaxDeliveries
    /\ deliveries' = deliveries + 1
    /\ IF event = "" \/ handle = NoRun
       THEN /\ response' = Response("handleWebhook", "BadRequest",
                                      <<event, handle>>)
            /\ UNCHANGED <<hw, storeFaults, tj>>
       ELSE \E ok \in StoreOutcomes :
              /\ StoreAnswer(ok)
              /\ IF ~ok \/ Cardinality(RunsWithHandle(handle)) # 1
                    \/ event \notin EventTypes
                 THEN /\ response' = Response("handleWebhook", "ignored",
                                                <<event, handle>>)
                      /\ hw' = hw
                      /\ tj' = IF /\ ok
                                  /\ tj.pc = "t_update"
                                  /\ tj.apify = handle
                                  /\ IsCallbackOf(event, handle)
                               THEN [tj EXCEPT !.missed = TRUE]
                               ELSE tj
                 ELSE LET r == CHOOSE x \in RunsWithHandle(handle) : TRUE
                          dup == /\ Quiet(w)
                                 /\ lastHandled = [run |-> r,
                                                   event |-> event]
                      IN /\ response' = NoResponse
                         /\ tj' = tj
                         /\ hw' = [Disturbed(hw) EXCEPT ![w] =
                              [IdleSlot EXCEPT
                                 !.pc = "w_update",
                                 !.event = event,
                                 !.handle = handle,
                                 !.run = r,
                                 !.md = runs[r].metadata,
                                 !.clean = Quiet(w),
                                 !.base = IF dup
                                          THEN Handled(runs, mentions, r,
                                                       event)
                                          ELSE NoneHandled]]
    /\ UNCHANGED <<jobs, runs, mentions, apifyRuns, immediates,
                   triggers, lastHandled>>

\* update of the run with updateData
HandleWebhook_Update(w) ==
    /\ hw[w].pc = "w_update"
    /\ UNCHANGED enrichment
    /\ LET r == hw[w].run
           e == hw[w].event
       IN \E ok \in StoreOutcomes :
            /\ StoreAnswer(ok)
            /\ IF ok
               THEN /\ runs' = [runs EXCEPT ![r] =
                         [@ EXCEPT
                            !.status = StatusOf(e),
                            !.finished_at = TRUE,
                            !.error_message =
                                IF e = "ACTOR.RUN.SUCCEEDED" THEN @
                                ELSE ErrorMessageOf(e),
                            !.metadata = hw[w].md \cup ReceiptKeys]]
                    /\ IF e = "ACTOR.RUN.SUCCEEDED"
                       THEN /\ hw' = [hw EXCEPT ![w].pc = "w_process"]
                            /\ lastHandled' = NoDelivery
                            /\ response' = NoResponse
                       ELSE Finish(w, "success", FALSE)
               ELSE /\ runs' = runs
                    /\ Finish(w, "BadRequest", TRUE)
    /\ UNCHANGED <<jobs, mentions, apifyRuns, immediates, tj, deliveries, triggers>>

\* a branch for the posts run that does not look at is_comments_scraper
IsInstagramRun(w) ==
    jobs[runs[hw[w].run].job_id].source_type = "instagram"

\* a processCompletedRun without the branch for the posts run
NoFirstPhase(w) == FALSE

\* processCompletedRun: a run of an instagram job that is not itself a
\* comments run is chained instead of ingested:
\* scraperRun.scraper_jobs.source_type === 'instagram' &&
\* !scraperRun.metadata?.is_comments_scraper
IsFirstPhase(w) ==
    /\ jobs[runs[hw[w].run].job_id].source_type = "instagram"
    /\ "is_comments_scraper" \notin hw[w].md

\* metadata: { ...scraperRun.metadata, <keys> } written to the run; a store
\* error of these updates is not looked at
WriteMetadata(w, keys, ok) ==
    runs' = IF ok
            THEN [runs EXCEPT ![hw[w].run].metadata = hw[w].md \cup keys]
            ELSE runs

\* processApifyRunData up to the upsert: getRunData, transform, insertMentions
\* and the two setImmediate calls
ProcessApifyRunData(w) ==
    /\ hw[w].pc = "w_process"
    /\ UNCHANGED enrichment
    /\ ~IsFirstPhase(w)
    /\ LET r == hw[w].run
           h == hw[w].handle
           items == apifyRuns[h].items
       IN \E fetched \in ProviderOutcomes :
            IF ~fetched
            THEN /\ hw' = [hw EXCEPT ![w].pc = "w_err", ![w].clean = FALSE]
                 /\ UNCHANGED <<mentions, immediates, storeFaults>>
            ELSE /\ CanFetch(h)
                 /\ IF items = <<>>
                    THEN /\ hw' = [hw EXCEPT ![w].pc = "w_meta"]
                         /\ UNCHANGED <<mentions, immediates, storeFaults>>
                    ELSE \E now \in Clock :
                      LET cands == transformApifyDataToMentions(items,
                                      runs[r].tenant_id,
                                      jobs[runs[r].job_id].source_type,
                                      r, now)
                      IN IF cands = <<>>
                         THEN /\ hw' = [hw EXCEPT ![w].pc = "w_stats",
                                                  ![w].found = Len(items),
                                                  ![w].ins = 0]
                              /\ UNCHANGED <<mentions, immediates,
                                             storeFaults>>
                         ELSE \E ok \in StoreOutcomes :
                           /\ StoreAnswer(ok)
                           /\ IF ok /\ ~BatchConflict(cands)
                              THEN /\ mentions' = UpsertRows(mentions, cands)
                                   /\ immediates' = immediates \o
                                        FanOut(UpsertReturned(mentions,
                                                 mentions', cands))
                                   /\ hw' = [hw EXCEPT
                                        ![w].pc = "w_stats",
                                        ![w].found = Len(items),
                                        ![w].ins = Len(cands)]
                              ELSE /\ hw' = [hw EXCEPT
                                        ![w].pc = "w_err",
                                        ![w].clean = hw[w].clean /\ ok]
                                   /\ UNCHANGED <<mentions, immediates>>
    /\ lastHandled' = NoDelivery
    /\ response' = NoResponse
    /\ UNCHANGED <<jobs, runs, apifyRuns, tj, deliveries, triggers>>

\* updateScraperRunStats(scraperRun.id, apifyData.length,
\* insertedMentions.length)
UpdateScraperRunStats(w) ==
    /\ hw[w].pc = "w_stats"
    /\ Awaited(tasks) = {}
    /\ UNCHANGED enrichment
    /\ \E ok \in StoreOutcomes :
         /\ StoreAnswer(ok)
         /\ runs' = IF ok
                    THEN [runs EXCEPT ![hw[w].run] =
                            [@ EXCEPT
                               !.items_found = hw[w].found,
                               !.items_processed = hw[w].ins,
                               !.items_failed = hw[w].found - hw[w].ins]]
                    ELSE runs
         /\ hw' = [hw EXCEPT ![w].pc = "w_meta",
                             ![w].clean = hw[w].clean /\ ok]
    /\ lastHandled' = NoDelivery
    /\ response' = NoResponse
    /\ UNCHANGED <<jobs, mentions, apifyRuns, immediates, tj,
                   deliveries, triggers>>

\* processCompletedRun: the data_processed update, then return success
ProcessCompletedRun_Done(w) ==
    /\ hw[w].pc = "w_meta"
    /\ UNCHANGED enrichment
    /\ \E ok \in StoreOutcomes :
         /\ StoreAnswer(ok)
         /\ WriteMetadata(w, {"data_processed", "data_processed_at"}, ok)
         /\ Finish(w, "success", ~ok)
    /\ UNCHANGED <<jobs, mentions, apifyRuns, immediates, tj, deliveries, triggers>>

\* a processCompletedRun without its try/catch: the error reaches
\* handleWebhook's catch, which answers 400
ProcessCompletedRun_Rethrow(w) ==
    /\ hw[w].pc = "w_err"
    /\ UNCHANGED enrichment
    /\ Finish(w, "BadRequest", TRUE)
    /\ UNCHANGED <<jobs, runs, mentions, apifyRuns, immediates, tj, deliveries,
                   triggers, storeFaults>>

\* processCompletedRun: catch, the data_processing_error update, then
\* return success
ProcessCompletedRun_Catch(w) ==
    /\ hw[w].pc = "w_err"
    /\ UNCHANGED enrichment
    /\ \E ok \in StoreOutcomes :
         /\ StoreAnswer(ok)
         /\ WriteMetadata(w, {"data_processing_error",
                              "data_processing_failed_at"}, ok)
         /\ Finish(w, "success", ~ok)
    /\ UNCHANGED <<jobs, mentions, apifyRuns, immediates, tj, deliveries, triggers>>

\* items with url, postUrl or shortCode, at most MaxPostUrls of them
PostUrlCount(items) ==
    LET n == Cardinality({i \in 1 .. Len(items) : items[i].url # <<>>})
    IN IF n > MaxPostUrls THEN MaxPostUrls ELSE n

\* handleInstagramPostsCompleted up to the start of the comments run; the
\* provider accepts a run while it has fewer than cap
InstagramPosts_StartUpTo(w, cap) ==
    /\ hw[w].pc = "w_process"
    /\ UNCHANGED enrichment
    /\ IsFirstPhase(w)
    /\ LET h == hw[w].handle
           items == apifyRuns[h].items
       IN \E fetched \in ProviderOutcomes :
            IF ~fetched
            THEN /\ hw' = [hw EXCEPT ![w].pc = "c_err", ![w].clean = FALSE]
                 /\ response' = NoResponse
                 /\ UNCHANGED <<apifyRuns, lastHandled>>
            ELSE /\ CanFetch(h)
                 /\ IF items = <<>> \/ PostUrlCount(items) = 0
                    THEN /\ apifyRuns' = apifyRuns
                         /\ Finish(w, "success", FALSE)
                    ELSE \E started \in ProviderOutcomes :
                      IF started
                      THEN /\ Len(apifyRuns) < cap
                           /\ apifyRuns' = Append(apifyRuns,
                                NewApifyRun("instagram_comments",
                                            "webhook_url" \in hw[w].md,
                                            PostUrlCount(items)))
                           /\ hw' = [hw EXCEPT
                                ![w].pc = "c_insert",
                                ![w].crun = Len(apifyRuns) + 1]
                           /\ response' = NoResponse
                           /\ UNCHANGED <<lastHandled>>
                      ELSE /\ hw' = [hw EXCEPT ![w].pc = "c_err",
                                               ![w].clean = FALSE]
                           /\ response' = NoResponse
                           /\ UNCHANGED <<apifyRuns, lastHandled>>
    /\ UNCHANGED <<jobs, runs, mentions, immediates, tj, deliveries, triggers,
                   storeFaults>>

InstagramPosts_Start(w) == InstagramPosts_StartUpTo(w, MaxApifyRuns)

CommentsMetadata(md) ==
    {"is_comments_scraper", "parent_posts_run_id", "parent_apify_run_id",
     "post_urls", "triggered_automatically"} \cup (md \cap {"webhook_url"})

\* insert of the run row of the comments run; the table takes a row while it
\* has fewer than cap
InstagramPosts_InsertUpTo(w, cap) ==
    /\ hw[w].pc = "c_insert"
    /\ UNCHANGED enrichment
    /\ Len(runs) < cap
    /\ LET r == hw[w].run
       IN \E ok \in StoreOutcomes :
            /\ StoreAnswer(ok)
            /\ IF ok
               THEN /\ runs' = Append(runs,
                         NewRun(runs[r].job_id,
                                jobs[runs[r].job_id].tenant_id, "running",
                                hw[w].crun, TRUE,
                                CommentsMetadata(hw[w].md)))
                    /\ hw' = [hw EXCEPT ![w].pc = "c_parent",
                                        ![w].newRun = Len(runs) + 1]
               ELSE /\ runs' = runs
                    /\ hw' = [hw EXCEPT ![w].pc = "c_err",
                                        ![w].clean = FALSE]
    /\ lastHandled' = NoDelivery
    /\ response' = NoResponse
    /\ UNCHANGED <<jobs, mentions, apifyRuns, immediates, tj,
                   deliveries, triggers>>

InstagramPosts_Insert(w) == InstagramPosts_InsertUpTo(w, MaxRuns)

\* update of the posts run with the link to the comments run
InstagramPosts_Link(w) ==
    /\ hw[w].pc = "c_parent"
    /\ UNCHANGED enrichment
    /\ \E ok \in StoreOutcomes :
         /\ StoreAnswer(ok)
         /\ WriteMetadata(w, {"comments_scraper_triggered", "comments_run_id",
                              "comments_apify_run_id", "post_urls_found"}, ok)
         /\ Finish(w, "success", ~ok)
    /\ UNCHANGED <<jobs, mentions, apifyRuns, immediates, tj, deliveries, triggers>>

\* catch of handleInstagramPostsCompleted
InstagramPosts_Catch(w) ==
    /\ hw[w].pc = "c_err"
    /\ UNCHANGED enrichment
    /\ \E ok \in StoreOutcomes :
         /\ StoreAnswer(ok)
         /\ WriteMetadata(w, {"comments_scraper_error",
                              "comments_scraper_failed_at"}, ok)
         /\ Finish(w, "success", ~ok)
    /\ UNCHANGED <<jobs, mentions, apifyRuns, immediates, tj, deliveries, triggers>>

----------------------------------------------------------------------------
\* The callbacks handed to setImmediate: SentimentService.batchAnalyzeMentions
\* and AITaggingService.bulkTagMentions

\* i: position in the loop of the step; todo: mentionsToAnalyze;
\* results: for a sentiment batch batchResults, "judged" for the provider's
\* answer and "fallback" for the neutral result that stands for a failed
\* call; for a tagging batch history, what became of each id: "tagged"
\* (successCount++), "failed" (failedCount++) or "skipped" (continue);
\* label: the category and intent of the taggingResult in hand, 0 when none
PendingTask ==
    [pc |-> "pending", i |-> 0, todo |-> <<>>, results |-> <<>>, label |-> 0]

\* the event loop runs the callbacks in the order of their setImmediate calls
StartImmediate(k) ==
    /\ k \in 1 .. Len(tasks)
    /\ tasks[k].pc = "pending"
    /\ \A x \in 1 .. k - 1 : tasks[x].pc # "pending"
    /\ tasks' = [tasks EXCEPT ![k].pc = IF immediates[k].kind = "sentiment"
                                        THEN "filter" ELSE "brand",
                              ![k].i = 1]
    /\ UNCHANGED <<jobs, runs, mentions, apifyRuns, immediates, tj, hw,
                   response, deliveries, triggers, storeFaults, lastHandled,
                   sentiments, tags>>

\* findByMentionId: .eq('mention_id', id).single(); no row, several rows and
\* a store error all come back as null
Existing(rows, m, ok) ==
    ok /\ Cardinality({x \in 1 .. Len(rows) : rows[x].mention_id = m}) = 1

\* batchAnalyzeMentions: one turn of the filter loop; an empty
\* mentionsToAnalyze ends the batch
FindByMentionId(k) ==
    /\ k \in 1 .. Len(tasks)
    /\ tasks[k].pc = "filter"
    /\ LET t == tasks[k]
           m == immediates[k].mentions[t.i]
       IN \E ok \in StoreOutcomes :
            /\ StoreAnswer(ok)
            /\ LET todo == IF Existing(sentiments, m, ok) THEN t.todo
                           ELSE Append(t.todo, m)
               IN tasks' = [tasks EXCEPT ![k] =
                      IF t.i < Len(immediates[k].mentions)
                      THEN [t EXCEPT !.i = t.i + 1, !.todo = todo]
                      ELSE IF todo = <<>>
                           THEN [t EXCEPT !.pc = "done", !.todo = todo]
                           ELSE [t EXCEPT !.pc = "analyze", !.i = 1,
                                          !.todo = todo]]
    /\ UNCHANGED <<jobs, runs, mentions, apifyRuns, immediates, tj, hw,
                   response, deliveries, triggers, lastHandled, sentiments,
                   tags>>

\* a catch that marks every run failed
MarkRunsFailed(rs) ==
    [r \in DOMAIN rs |-> [rs[r] EXCEPT !.status = "failed"]]

\* the catch blocks of the batches (batchAnalyzeSentiment, the store loop of
\* batchAnalyzeMentions, bulkTagMentions) log and count: the scraper_runs
\* rows after them are the rows before
OnItemFailure(rs) == rs

\* the loop of batchAnalyzeSentiment moves on to the next item, or returns
NextItem(t) ==
    IF t.i < Len(t.todo) THEN [t EXCEPT !.pc = "analyze", !.i = t.i + 1]
    ELSE [t EXCEPT !.pc = "store", !.i = 1]

\* results.push({ id, result: { sentiment: 'neutral', confidence: 0.5,
\* reasoning: 'Analysis failed: ...' } }) in the catch of an item
FailedResult == "fallback"

\* batchAnalyzeSentiment: analyzeSentiment for one item; the answer is pushed
\* and the delay follows, a failure pushes the neutral result and goes on
AnalyzeSentiment(k) ==
    /\ k \in 1 .. Len(tasks)
    /\ tasks[k].pc = "analyze"
    /\ \E ok \in ProviderOutcomes :
         /\ tasks' = [tasks EXCEPT ![k] =
               IF ok
               THEN [tasks[k] EXCEPT !.pc = "delay",
                                     !.results = Append(@, "judged")]
               ELSE NextItem([tasks[k] EXCEPT
                                 !.results = Append(@, FailedResult)])]
         /\ runs' = IF ok THEN runs ELSE OnItemFailure(runs)
    /\ UNCHANGED <<jobs, mentions, apifyRuns, immediates, tj, hw,
                   response, deliveries, triggers, storeFaults, lastHandled,
                   sentiments, tags>>

\* await this.delay(100) after an answered item
Delay(k) ==
    /\ k \in 1 .. Len(tasks)
    /\ tasks[k].pc = "delay"
    /\ tasks' = [tasks EXCEPT ![k] = NextItem(tasks[k])]
    /\ UNCHANGED <<jobs, runs, mentions, apifyRuns, immediates, tj, hw,
                   response, deliveries, triggers, storeFaults, lastHandled,
                   sentiments, tags>>

\* createSentimentAnalysis: .insert(sentimentData)
InsertSentiment(rows, row) == Append(rows, row)

\* batchAnalyzeMentions: one turn of the store loop; an error of
\* createSentimentAnalysis is caught and counted. batch is history: the
\* callback that wrote the row
CreateSentimentAnalysis(k) ==
    /\ k \in 1 .. Len(tasks)
    /\ tasks[k].pc = "store"
    /\ LET t == tasks[k]
       IN /\ \E ok \in StoreOutcomes :
               /\ StoreAnswer(ok)
               /\ sentiments' =
                    IF ok
                    THEN InsertSentiment(sentiments,
                             [mention_id |-> t.todo[t.i],
                              result |-> t.results[t.i], batch |-> k])
                    ELSE sentiments
               /\ runs' = IF ok THEN runs ELSE OnItemFailure(runs)
          /\ tasks' = [tasks EXCEPT ![k] =
                 IF t.i < Len(t.todo) THEN [t EXCEPT !.i = t.i + 1]
                 ELSE [t EXCEPT !.pc = "done"]]
    /\ UNCHANGED <<jobs, mentions, apifyRuns, immediates, tj, hw,
                   response, deliveries, triggers, lastHandled, tags>>

\* the callback of triggerAITagging: the brand lookup, whose error is not
\* looked at, then bulkTagMentions(mentionIds, tenantId, industryId, false)
TaggingBrand(k) ==
    /\ k \in 1 .. Len(tasks)
    /\ tasks[k].pc = "brand"
    /\ tasks' = [tasks EXCEPT ![k].pc = "t_check", ![k].i = 1]
    /\ UNCHANGED <<jobs, runs, mentions, apifyRuns, immediates, tj, hw,
                   response, deliveries, triggers, storeFaults, lastHandled,
                   sentiments, tags>>

\* the for loop of bulkTagMentions goes on with the next id, or returns
NextId(t, n, outcome) ==
    IF t.i < n
    THEN [t EXCEPT !.pc = "t_check", !.i = t.i + 1, !.label = 0,
                   !.results = Append(@, outcome)]
    ELSE [t EXCEPT !.pc = "done", !.label = 0,
                   !.results = Append(@, outcome)]

\* getMentionTag: .eq('mention_id', id).single(), return data || null; no
\* row, several rows and a store error all come back as null
ExistingTag(rows, m, ok) ==
    ok /\ Cardinality({x \in 1 .. Len(rows) : rows[x].mention_id = m}) = 1

\* bulkTagMentions: the check of one id; a tagged mention is skipped
GetMentionTag(k) ==
    /\ k \in 1 .. Len(tasks)
    /\ tasks[k].pc = "t_check"
    /\ LET t == tasks[k]
           m == immediates[k].mentions[t.i]
       IN \E ok \in StoreOutcomes :
            /\ StoreAnswer(ok)
            /\ tasks' = [tasks EXCEPT ![k] =
                   IF ExistingTag(tags, m, ok)
                   THEN NextId(t, Len(immediates[k].mentions), "skipped")
                   ELSE [t EXCEPT !.pc = "t_tag"]]
    /\ UNCHANGED <<jobs, runs, mentions, apifyRuns, immediates, tj, hw,
                   response, deliveries, triggers, lastHandled, sentiments,
                   tags>>

\* the category and intent the AI can answer with
Labels == 1 .. 2

\* tagMention: the AI call answers with a taggingResult or throws; the throw
\* is caught by the loop and counted
TagMention(k) ==
    /\ k \in 1 .. Len(tasks)
    /\ tasks[k].pc = "t_tag"
    /\ \/ \E l \in Labels :
            /\ tasks' = [tasks EXCEPT ![k].pc = "t_store", ![k].label = l]
            /\ runs' = runs
       \/ /\ tasks' = [tasks EXCEPT ![k] =
                NextId(tasks[k], Len(immediates[k].mentions), "failed")]
          /\ runs' = OnItemFailure(runs)
    /\ UNCHANGED <<jobs, mentions, apifyRuns, immediates, tj, hw,
                   response, deliveries, triggers, storeFaults, lastHandled,
                   sentiments, tags>>

\* upsert(mentionTagData, { onConflict: 'mention_id,category_id,intent_id' })
UpsertTag(rows, row) ==
    IF \E x \in 1 .. Len(rows) : rows[x] = row THEN rows
    ELSE Append(rows, row)

\* storeMentionTag: a store error is thrown, caught by the loop and counted;
\* a stored tag is counted and followed by the delay
StoreMentionTag(k) ==
    /\ k \in 1 .. Len(tasks)
    /\ tasks[k].pc = "t_store"
    /\ LET t == tasks[k]
           m == immediates[k].mentions[t.i]
       IN \E ok \in StoreOutcomes :
            /\ StoreAnswer(ok)
            /\ IF ok
               THEN /\ tags' = UpsertTag(tags, [mention_id |-> m,
                                                label |-> t.label])
                    /\ tasks' = [tasks EXCEPT ![k].pc = "t_delay"]
                    /\ runs' = runs
               ELSE /\ tags' = tags
                    /\ tasks' = [tasks EXCEPT ![k] =
                          NextId(t, Len(immediates[k].mentions), "failed")]
                    /\ runs' = OnItemFailure(runs)
    /\ UNCHANGED <<jobs, mentions, apifyRuns, immediates, tj, hw,
                   response, deliveries, triggers, lastHandled, sentiments>>

\* await this.delay(500) after a stored tag
TagDelay(k) ==
    /\ k \in 1 .. Len(tasks)
    /\ tasks[k].pc = "t_delay"
    /\ tasks' = [tasks EXCEPT ![k] =
           NextId(tasks[k], Len(immediates[k].mentions), "tagged")]
    /\ UNCHANGED <<jobs, runs, mentions, apifyRuns, immediates, tj, hw,
                   response, deliveries, triggers, storeFaults, lastHandled,
                   sentiments, tags>>

\* The enrichment starts from a state of the pipeline: job 1 was triggered,
\* its run succeeded with three items of which two have content, and the
\* SUCCEEDED webhook was delivered twice; the first delivery has returned, the
\* second has written its mentions and scheduled its callbacks.
EnrichItems == <<ItemBare, ItemUrl, ItemEmpty>>

EnrichPass(now) ==
    transformApifyDataToMentions(EnrichItems, JobRow(1).tenant_id,
                                 JobRow(1).source_type, 1, now)

EnrichState(now) ==
    LET first == UpsertRows(<<>>, EnrichPass(1))
        second == UpsertRows(first, EnrichPass(now))
        started == TriggerMetadata \cup {"apify_run_id", "apify_actor_id"}
        processed == started \cup {"data_processed", "data_processed_at"}
        run == [NewRun(1, JobRow(1).tenant_id, "completed", 1, TRUE,
                       processed \cup ReceiptKeys)
                  EXCEPT !.finished_at = TRUE, !.items_found = 3,
                         !.items_processed = 2, !.items_failed = 1]
    IN /\ jobs = [j \in JobIds |->
                   IF j = 1 THEN [JobRow(j) EXCEPT !.next_run_at = TRUE]
                   ELSE JobRow(j)]
       /\ runs = <<run>>
       /\ mentions = second
       /\ apifyRuns = <<[NewApifyRun(JobRow(1).source_type, TRUE, 0)
                           EXCEPT !.status = "SUCCEEDED",
                                  !.items = EnrichItems]>>
       /\ immediates =
            FanOut(UpsertReturned(<<>>, first, EnrichPass(1)))
            \o FanOut(UpsertReturned(first, second, EnrichPass(now)))
       /\ tj = IdleTrigger
       /\ hw = [w \in WebhookSlots |->
                 IF w = 1
                 THEN [IdleSlot EXCEPT
                         !.pc = "w_stats", !.run = 1,
                         !.event = "ACTOR.RUN.SUCCEEDED", !.handle = 1,
                         !.md = processed, !.found = 3, !.ins = 2,
                         !.clean = TRUE,
                         !.base = Handled(<<run>>, first, 1,
                                          "ACTOR.RUN.SUCCEEDED")]
                 ELSE IdleSlot]
       /\ response = NoResponse
       /\ deliveries = 2
       /\ triggers = 1
       /\ storeFaults = 0
       /\ lastHandled = NoDelivery

\* every callback is scheduled and none has run
AllPending ==
    /\ tasks = [k \in 1 .. Len(immediates) |-> PendingTask]
    /\ sentiments = <<>>
    /\ tags = <<>>

\* The callbacks of the first pass have run while the second delivery was
\* handled: the sentiment batch waits for the answer to its first lookup, the
\* tagging batch has tagged mention 1, failed on mention 2 and returned. The
\* callbacks of the second pass have not started.
FirstPassEnriched ==
    /\ tasks = [k \in 1 .. Len(immediates) |->
                 IF k = 1 THEN [PendingTask EXCEPT !.pc = "filter", !.i = 1]
                 ELSE IF k = 2
                 THEN [PendingTask EXCEPT !.pc = "done", !.i = 2,
                                          !.results = <<"tagged", "failed">>]
                 ELSE PendingTask]
    /\ sentiments = <<>>
    /\ tags = <<[mention_id |-> 1, label |-> 1]>>

EnrichInit ==
    /\ \E now \in Clock : EnrichState(now)
    /\ FirstPassEnriched

\* the callbacks run from the moment they are all scheduled
AllPendingInit ==
    /\ \E now \in Clock : EnrichState(now)
    /\ AllPending

EnrichNext ==
    \/ \E w \in WebhookSlots : UpdateScraperRunStats(w)
    \/ \E w \in WebhookSlots : ProcessCompletedRun_Done(w)
    \/ \E k \in 1 .. 2 * MaxDeliveries : StartImmediate(k)
    \/ \E k \in 1 .. 2 * MaxDeliveries : FindByMentionId(k)
    \/ \E k \in 1 .. 2 * MaxDeliveries : AnalyzeSentiment(k)
    \/ \E k \in 1 .. 2 * MaxDeliveries : Delay(k)
    \/ \E k \in 1 .. 2 * MaxDeliveries : CreateSentimentAnalysis(k)
    \/ \E k \in 1 .. 2 * MaxDeliveries : TaggingBrand(k)
    \/ \E k \in 1 .. 2 * MaxDeliveries : GetMentionTag(k)
    \/ \E k \in 1 .. 2 * MaxDeliveries : TagMention(k)
    \/ \E k \in 1 .. 2 * MaxDeliveries : StoreMentionTag(k)
    \/ \E k \in 1 .. 2 * MaxDeliveries : TagDelay(k)

EnrichSpec == EnrichInit /\ [][EnrichNext]_vars

AllPendingSpec == AllPendingInit /\ [][EnrichNext]_vars

----------------------------------------------------------------------------

Next ==
    \/ \E id \in JobIds \cup {UnknownJob}, t \in Tenants :
          TriggerJob_Insert(id, t)
    \/ TriggerJob_Start
    \/ TriggerJob_Update
    \/ TriggerJob_Abort
    \/ TriggerJob_Fail
    \/ \E h \in 1 .. MaxApifyRuns + 1, d \in Datasets,
          s \in {"SUCCEEDED", "FAILED"} :
          ApifyRunEnds(h, s, d)
    \/ \E w \in WebhookSlots, p \in Payloads :
          HandleWebhook_Find(w, p[1], p[2])
    \/ \E w \in WebhookSlots : HandleWebhook_Update(w)
    \/ \E w \in WebhookSlots : ProcessApifyRunData(w)
    \/ \E w \in WebhookSlots : UpdateScraperRunStats(w)
    \/ \E w \in WebhookSlots : ProcessCompletedRun_Done(w)
    \/ \E w \in WebhookSlots : ProcessCompletedRun_Catch(w)
    \/ \E w \in WebhookSlots : InstagramPosts_Start(w)
    \/ \E w \in WebhookSlots : InstagramPosts_Insert(w)
    \/ \E w \in WebhookSlots : InstagramPosts_Link(w)
    \/ \E w \in WebhookSlots : InstagramPosts_Catch(w)

Spec == Init /\ [][Next]_vars

----------------------------------------------------------------------------
\* Chaining with room for a second dependent run: the instagram job was
\* triggered once, the provider runs its posts run, and no further trigger
\* comes. The provider and the run table take one run more than in Spec.

\* the state in which triggerJob(id) has returned the run of job id
TriggeredState(id) ==
    /\ jobs = [j \in JobIds |->
                 IF j = id THEN [JobRow(j) EXCEPT !.next_run_at = TRUE]
                 ELSE JobRow(j)]
    /\ runs = <<NewRun(id, JobRow(id).tenant_id, "running", 1, TRUE,
                       TriggerMetadata \cup {"apify_run_id",
                                             "apify_actor_id"})>>
    /\ mentions = <<>>
    /\ apifyRuns = <<NewApifyRun(JobRow(id).source_type, TRUE, 0)>>
    /\ immediates = <<>>
    /\ tj = IdleTrigger
    /\ hw = [w \in WebhookSlots |-> IdleSlot]
    /\ response = Response("triggerJob", "ok", <<id, JobRow(id).tenant_id>>)
    /\ deliveries = 0
    /\ triggers = 1
    /\ storeFaults = 0
    /\ lastHandled = NoDelivery
    /\ tasks = <<>>
    /\ sentiments = <<>>
    /\ tags = <<>>

ChainState == TriggeredState(2)

ChainInit == ChainState

ChainNext ==
    \/ \E h \in 1 .. MaxApifyRuns + 1, d \in Datasets,
          s \in {"SUCCEEDED", "FAILED"} :
          ApifyRunEnds(h, s, d)
    \/ \E w \in WebhookSlots, p \in Payloads :
          HandleWebhook_Find(w, p[1], p[2])
    \/ \E w \in WebhookSlots : HandleWebhook_Update(w)
    \/ \E w \in WebhookSlots : ProcessApifyRunData(w)
    \/ \E w \in WebhookSlots : UpdateScraperRunStats(w)
    \/ \E w \in WebhookSlots : ProcessCompletedRun_Done(w)
    \/ \E w \in WebhookSlots : ProcessCompletedRun_Catch(w)
    \/ \E w \in WebhookSlots :
          InstagramPosts_StartUpTo(w, MaxApifyRuns + 1)
    \/ \E w \in WebhookSlots : InstagramPosts_InsertUpTo(w, MaxRuns + 1)
    \/ \E w \in WebhookSlots : InstagramPosts_Link(w)
    \/ \E w \in WebhookSlots : InstagramPosts_Catch(w)

ChainSpec == ChainInit /\ [][ChainNext]_vars

----------------------------------------------------------------------------
\* From running to the end: job 1 was triggered and its run is running. The
\* provider ends the run in one of its four ways and sends the webhooks it
\* was given at the start; the store answers every operation; every request
\* that is being handled goes on.

ProviderStatuses == {"SUCCEEDED", "FAILED", "ABORTED", "TIMED-OUT"}

\* the provider calls the webhook URL for the end of run h
ProviderDelivers(w, h) ==
    /\ h \in 1 .. Len(apifyRuns)
    /\ IsCallbackOf(EventOf(apifyRuns[h].status), h)
    /\ HandleWebhook_Find(w, EventOf(apifyRuns[h].status), h)

\* no store operation of the step answers with an error
StoreAvailable == storeFaults' = storeFaults

LiveInit == TriggeredState(1)

ProviderEnds ==
    \E h \in 1 .. MaxApifyRuns, d \in Datasets, s \in ProviderStatuses :
        ApifyRunEnds(h, s, d)

Delivery ==
    \E w \in WebhookSlots, h \in 1 .. MaxApifyRuns :
        ProviderDelivers(w, h) /\ StoreAvailable

Handling ==
    \/ \E w \in WebhookSlots : HandleWebhook_Update(w) /\ StoreAvailable
    \/ \E w \in WebhookSlots : ProcessApifyRunData(w) /\ StoreAvailable
    \/ \E w \in WebhookSlots : UpdateScraperRunStats(w) /\ StoreAvailable
    \/ \E w \in WebhookSlots : ProcessCompletedRun_Done(w) /\ StoreAvailable
    \/ \E w \in WebhookSlots : ProcessCompletedRun_Catch(w) /\ StoreAvailable

LiveNext == ProviderEnds \/ Delivery \/ Handling

\* the provider ends every run, delivers the webhooks of an ended run, and
\* the event loop goes on with every request in progress
LiveSpec ==
    /\ LiveInit
    /\ [][LiveNext]_vars
    /\ WF_vars(ProviderEnds)
    /\ WF_vars(Delivery)
    /\ WF_vars(Handling)

----------------------------------------------------------------------------
\* Properties

Terminal == {"completed", "failed"}
RunIds == 1 .. Len(runs)
KeySet(rows) == {KeyOf(rows[i]) : i \in 1 .. Len(rows)}
Counters(run) == <<run.items_found, run.items_processed, run.items_failed>>
\* a run row carries the handle
KnownHandle(h) == \E r \in RunIds : runs[r].apify_run_id = h
\* the step receives a webhook request / a triggerJob call
Received == deliveries' = deliveries + 1
Triggered == triggers' = triggers + 1
\* slot w ends its request with this step
Returns(w) == hw[w].pc # "idle" /\ hw'[w].pc = "idle"
ValidPayload(arg) == arg[1] # "" /\ arg[2] # NoRun

\* C1: no two rows of scraped_mentions have the same tenant id, source kind
\* and source-native id, whatever ingestion passes ran and however they
\* interleaved.
MentionKeysUnique ==
    \A i, k \in 1 .. Len(mentions) :
        i # k => KeyOf(mentions[i]) # KeyOf(mentions[k])

\* two ingestion passes have written the same row: the second one met the key
\* that the first one had stored
C1_Witness ==
    \E a, b \in 1 .. Len(immediates) :
        /\ a < b
        /\ immediates[a].kind = "sentiment"
        /\ immediates[b].kind = "sentiment"
        /\ \E x \in 1 .. Len(immediates[a].mentions) :
             \E y \in 1 .. Len(immediates[b].mentions) :
                /\ immediates[a].mentions[x] = immediates[b].mentions[y]
                /\ mentions[immediates[a].mentions[x]].job_run_id = 2

\* C2: an ingestion pass that adds no key to scraped_mentions (every
\* candidate's key was there already) reports zero inserted mentions and
\* schedules no enrichment.
C2_NothingNewNothingInserted ==
    [][\A w \in WebhookSlots :
          (/\ hw[w].pc = "w_process"
           /\ hw'[w].pc = "w_stats"
           /\ KeySet(mentions') = KeySet(mentions))
          => hw'[w].ins = 0 /\ immediates' = immediates]_vars

\* C3: a run whose status is completed or failed is never set to running or
\* scheduled, by any triggerJob call or webhook request.
TerminalNeverReopened ==
    [][\A r \in RunIds :
          runs[r].status \in Terminal
          => runs'[r].status \notin {"running", "scheduled"}]_vars

\* a triggerJob call has just stored its run as running while an earlier run
\* that a webhook request had ended stays ended
C3_Witness ==
    /\ response.op = "triggerJob"
    /\ response.result = "ok"
    /\ Len(runs) = 2
    /\ runs[1].status \in Terminal
    /\ runs[1].apify_run_id # NoRun
    /\ runs[2].status = "running"

\* C4: once the status of a run is completed or failed, no later operation
\* changes it to the other of the two.
C4_TerminalNeverFlips ==
    [][\A r \in RunIds :
          /\ runs[r].status = "completed" => runs'[r].status # "failed"
          /\ runs[r].status = "failed" => runs'[r].status # "completed"]_vars

\* C5: a webhook request with a valid body whose run handle no run row
\* carries is answered 'ignored' by the step that receives it, and that step
\* writes no row of any table and calls the provider not at all; a request
\* that is handled further carries a handle of some run.
UnknownHandleIgnored ==
    [][Received =>
         IF response' = NoResponse
         THEN \E w \in WebhookSlots :
                 /\ hw[w].pc = "idle"
                 /\ hw'[w].pc = "w_update"
                 /\ KnownHandle(hw'[w].handle)
         ELSE (ValidPayload(response'.arg) /\ ~KnownHandle(response'.arg[2]))
              => /\ response'.result = "ignored"
                 /\ UNCHANGED <<jobs, runs, mentions, apifyRuns, immediates>>
      ]_vars

\* with a run in the store, a valid request for a handle that no run carries
\* has just been answered 'ignored'
C5_Witness ==
    /\ response.op = "handleWebhook"
    /\ response.result = "ignored"
    /\ response.arg[1] \in EventTypes
    /\ ~KnownHandle(response.arg[2])
    /\ \E r \in RunIds : runs[r].apify_run_id # NoRun

\* C6: when a webhook request repeats the one handled just before it (same
\* run, same event type, both handled alone and without a failed operation),
\* the run's status, error message and item counters and the rows of
\* scraped_mentions are after it what they were before it.
C6_DuplicateChangesNothing ==
    [][\A w \in WebhookSlots :
          (/\ Returns(w)
           /\ hw[w].base # NoneHandled
           /\ lastHandled' # NoDelivery)
          => Handled(runs', mentions', hw[w].run, hw[w].event) = hw[w].base
      ]_vars

\* C7: for a known run the event type alone decides.  SUCCEEDED stores
\* completed, the other three store failed with a message that names the kind
\* and end the request there; only a request that carries SUCCEEDED goes on to
\* fetch, normalize and ingest, and only such a request writes mentions,
\* schedules enrichment or sets the item counters of its run.
EventKindDecides ==
    [][/\ \A w \in WebhookSlots :
            (/\ hw[w].pc = "w_update"
             /\ hw'[w].pc # "w_update"
             /\ response'.result # "BadRequest") =>
               LET r == hw[w].run
                   e == hw[w].event
               IN IF e = "ACTOR.RUN.SUCCEEDED"
                  THEN /\ runs'[r].status = "completed"
                       /\ runs'[r].error_message = runs[r].error_message
                       /\ hw'[w].pc = "w_process"
                  ELSE /\ runs'[r].status = "failed"
                       /\ runs'[r].error_message =
                            (CASE e = "ACTOR.RUN.FAILED" -> "Apify run failed"
                               [] e = "ACTOR.RUN.ABORTED" -> "Apify run aborted"
                               [] e = "ACTOR.RUN.TIMED_OUT" ->
                                    "Apify run timed_out")
                       /\ Counters(runs'[r]) = Counters(runs[r])
                       /\ Returns(w)
                       /\ response'.result = "success"
       /\ \A w \in WebhookSlots :
            hw'[w].pc \notin {"idle", "w_update"}
               => hw'[w].event = "ACTOR.RUN.SUCCEEDED"
       /\ (mentions' # mentions \/ immediates' # immediates)
            => \E w \in WebhookSlots :
                 /\ hw[w].event = "ACTOR.RUN.SUCCEEDED"
                 /\ hw[w].pc = "w_process"
       /\ \A r \in RunIds :
            Counters(runs'[r]) # Counters(runs[r])
               => \E w \in WebhookSlots :
                    /\ hw[w].event = "ACTOR.RUN.SUCCEEDED"
                    /\ hw[w].pc = "w_stats"
                    /\ hw[w].run = r
      ]_vars

\* a TIMED_OUT request has just been answered for a run whose rows and
\* counters it left alone
C7_Witness ==
    /\ response = Response("handleWebhook", "success",
                           <<"ACTOR.RUN.TIMED_OUT", 1>>)
    /\ \E r \in RunIds :
         /\ runs[r].apify_run_id = 1
         /\ runs[r].status = "failed"
         /\ runs[r].error_message = "Apify run timed_out"

\* C8: when the ingestion of a SUCCEEDED request raises, the handler catches:
\* it writes data_processing_error and data_processing_failed_at into the
\* run's metadata (when the store takes the write), leaves status and error
\* message as they are, which is completed when no other request has been
\* received, and answers success.
IngestionErrorRecorded ==
    [][\A w \in WebhookSlots :
          (hw[w].pc = "w_err" /\ Returns(w)) =>
             LET r == hw[w].run
             IN /\ response'.result = "success"
                /\ runs'[r].status = runs[r].status
                /\ runs'[r].error_message = runs[r].error_message
                /\ deliveries = 1 => runs'[r].status = "completed"
                /\ storeFaults' = storeFaults
                     => {"data_processing_error",
                         "data_processing_failed_at"}
                           \subseteq runs'[r].metadata]_vars

\* the ingestion of a dataset with items raised (the provider refused the
\* fetch or the store rejected the batch), and the request has been answered
\* success with the error recorded
C8_Witness ==
    /\ response.op = "handleWebhook"
    /\ response.result = "success"
    /\ storeFaults = 0
    /\ \E r \in RunIds :
         /\ runs[r].status = "completed"
         /\ "data_processing_error" \in runs[r].metadata
         /\ apifyRuns[runs[r].apify_run_id].status = "SUCCEEDED"
         /\ apifyRuns[runs[r].apify_run_id].items # <<>>

\* C9: the endpoint answers 400 only to a body without eventType or without
\* actorRunId; every other request is answered 'ignored' or 'success', also
\* when a read or a write of the store fails.
C9_BadRequestOnlyForInvalidPayload ==
    [][(response'.op = "handleWebhook" /\ ValidPayload(response'.arg))
         => response'.result \in {"ignored", "success"}]_vars

\* C10: triggerJob for an id that no job of the tenant has answers NotFound,
\* for an inactive job of the tenant (when the lookup is answered) Forbidden;
\* neither inserts a run, calls the provider or changes the job, and a call
\* that goes on is for an active job of the calling tenant.
TriggerRejected ==
    [][Triggered =>
         IF tj'.pc = "t_start"
         THEN /\ jobs[tj'.id].is_active
              /\ runs'[tj'.run].tenant_id = jobs[tj'.id].tenant_id
              /\ runs'[tj'.run].job_id = tj'.id
         ELSE LET id == response'.arg[1]
                  tenantId == response'.arg[2]
                  exists == id \in JobIds /\ JobRow(id).tenant_id = tenantId
              IN /\ ~exists => response'.result = "NotFound"
                 /\ (exists /\ ~JobRow(id).is_active
                       /\ storeFaults' = storeFaults)
                      => response'.result = "Forbidden"
                 /\ response'.result \in {"NotFound", "Forbidden"}
                      => UNCHANGED <<jobs, runs, apifyRuns, tj>>
                 /\ (exists /\ JobRow(id).is_active)
                      => response'.result \in {"NotFound", "BadRequest"}
      ]_vars

\* with a run of another job in the store, the inactive job has just been
\* refused
C10_Witness ==
    /\ response = Response("triggerJob", "Forbidden", <<3, 1>>)
    /\ Len(runs) = 1
    /\ Len(apifyRuns) = 1

\* C11: a run is inserted as scheduled, with the callback URL and without a
\* run handle, before the provider is asked to start; it is running only with
\* the handle stored.  In every state a running run has a handle, a scheduled
\* run has none and carries the callback URL, and the run of a triggerJob call
\* that has not reached the provider yet is scheduled.
RunningHasHandle ==
    /\ \A r \in RunIds :
         /\ runs[r].status = "running" => runs[r].apify_run_id # NoRun
         /\ runs[r].status = "scheduled"
              => /\ runs[r].apify_run_id = NoRun
                 /\ "webhook_url" \in runs[r].metadata
    /\ tj.pc = "t_start" => runs[tj.run].status = "scheduled"

\* a run that is running with its handle next to a run that is scheduled
\* while its triggerJob call is about to ask the provider
C11_Witness ==
    /\ Len(runs) = 2
    /\ runs[1].status = "running"
    /\ runs[1].apify_run_id # NoRun
    /\ runs[2].status = "scheduled"
    /\ tj.pc = "t_start"

\* C12: when the provider's start call fails, the run of that triggerJob call
\* keeps no run handle, the call throws the provider's error, and (when the
\* store takes the write) the run is failed with a message that carries the
\* provider's error and with finished_at set.
StartFailureMarksRun ==
    [][(tj.pc = "t_fail" /\ tj.apify = NoRun /\ tj'.pc = "idle") =>
         /\ response'.op = "triggerJob"
         /\ response'.result = "BadRequest"
         /\ response'.error = "Failed to start scraper"
         /\ runs'[tj.run].apify_run_id = NoRun
         /\ storeFaults' = storeFaults
              => /\ runs'[tj.run].status = "failed"
                 /\ runs'[tj.run].error_message =
                      "Failed to start Apify run: Failed to start scraper"
                 /\ runs'[tj.run].finished_at
      ]_vars

\* a triggerJob call has just thrown the provider's start error and its run
\* is failed without a handle
C12_Witness ==
    /\ response.op = "triggerJob"
    /\ response.error = "Failed to start scraper"
    /\ \E r \in RunIds :
         /\ runs[r].status = "failed"
         /\ runs[r].finished_at
         /\ runs[r].apify_run_id = NoRun
         /\ runs[r].job_id = response.arg[1]

\* C13: when the update to running fails after the provider accepted the run,
\* triggerJob goes to the provider's abort for that run next, and the error
\* it throws afterwards is the update error, whether the abort succeeded or
\* failed.
AbortBeforeUpdateError ==
    [][/\ (tj.pc = "t_update" /\ tj'.pc \notin {"t_update", "idle"})
            => /\ tj'.pc = "t_abort"
               /\ response' = NoResponse
       /\ (response'.op = "triggerJob"
             /\ tj.pc # "idle" /\ tj.apify # NoRun
             /\ response'.result # "ok")
            => /\ apifyRuns[tj.apify].abortAttempted
               /\ tj.pc = "t_fail"
               /\ response'.error = "Failed to update scraper run"
      ]_vars

\* the abort itself failed (the provider's run is still running) and the
\* triggerJob call has just thrown the update error
C13_Witness ==
    /\ response.op = "triggerJob"
    /\ response.error = "Failed to update scraper run"
    /\ \E h \in 1 .. Len(apifyRuns) :
         /\ apifyRuns[h].abortAttempted
         /\ apifyRuns[h].status = "RUNNING"
         /\ \A r \in RunIds : runs[r].apify_run_id # h

\* the candidates normalization makes of the dataset that slot w ingests
CandidatesOf(w) ==
    transformApifyDataToMentions(apifyRuns[hw[w].handle].items,
                                 runs[hw[w].run].tenant_id,
                                 jobs[runs[hw[w].run].job_id].source_type,
                                 hw[w].run, 1)

\* C14: an ingestion pass counts as found the candidates normalization
\* produced and as processed the rows it newly inserted, and the counters it
\* writes to its run are found, processed and found - processed.
C14_CountersMatchPass ==
    [][\A w \in WebhookSlots :
          /\ (hw[w].pc = "w_process" /\ hw'[w].pc = "w_stats")
               => /\ hw'[w].found = Len(CandidatesOf(w))
                  /\ hw'[w].ins = Len(mentions') - Len(mentions)
          /\ (hw[w].pc = "w_stats" /\ hw'[w].pc = "w_meta"
                /\ storeFaults' = storeFaults)
               => Counters(runs'[hw[w].run]) =
                    <<hw[w].found, hw[w].ins, hw[w].found - hw[w].ins>>
      ]_vars

\* C15: within an ingestion pass the mention rows are written by a step
\* before the one that writes the counters, and enrichment is scheduled only
\* by a step after the one that writes the counters.
C15_CountersBeforeFanOut ==
    [][/\ mentions' # mentions
            => \E w \in WebhookSlots :
                 hw[w].pc = "w_process" /\ hw'[w].pc = "w_stats"
       /\ immediates' # immediates
            => \E w \in WebhookSlots :
                 /\ hw[w].pc \notin {"idle", "w_update", "w_process",
                                     "w_stats"}
                 /\ hw'[w].pc # hw[w].pc
      ]_vars

\* the pipeline can be in the state the enrichment starts from
EnrichStateReached1 == EnrichState(1)
EnrichStateReached2 == EnrichState(2)

SentimentIds == 1 .. Len(sentiments)
TaskIds == 1 .. Len(tasks)

\* C16: the fan-out returns at once: the pass and the webhook handler go on
\* and return without waiting for any sentiment or tagging provider call.
\* Whatever the callbacks are doing, the step of the handler that follows the
\* fan-out and the step that returns can be taken, and no step of the handler
\* moves a callback.
FanOutNotAwaited ==
    \A w \in WebhookSlots :
        /\ hw[w].pc = "w_stats" => ENABLED UpdateScraperRunStats(w)
        /\ hw[w].pc = "w_meta" => ENABLED ProcessCompletedRun_Done(w)

\* the handler has returned success while a sentiment provider call is in
\* flight, a tagging callback has not ended and no sentiment row is written
C16_Witness ==
    /\ hw[1].pc = "idle"
    /\ response.op = "handleWebhook" /\ response.result = "success"
    /\ \E k \in TaskIds : tasks[k].pc = "analyze"
    /\ \E k \in TaskIds : tasks[k].pc = "t_tag"
    /\ sentiments = <<>>

\* C17: in a sentiment batch, a mention whose provider call fails gets no
\* SentimentAnalysis row, the other mentions of the batch get theirs, and
\* the batch ends without raising. Checked part: no row stands for a failed
\* provider call.
C17_NoRowForFailedCall ==
    \A x \in SentimentIds : sentiments[x].result # FailedResult

\* C18: a mention has at most one SentimentAnalysis row, also when two
\* batches that cover the same mention run concurrently.
C18_OneRowPerMention ==
    \A x, y \in SentimentIds :
        sentiments[x].mention_id = sentiments[y].mention_id => x = y

\* the runs of a source with a dependent phase that are not the dependent run
FirstPhaseRuns ==
    {r \in RunIds : /\ jobs[runs[r].job_id].source_type = "instagram"
                    /\ "is_comments_scraper" \notin runs[r].metadata}

\* C19: a first-phase run is never normalized or ingested, whether or not the
\* chaining succeeds: no mention has it as its originating run and its item
\* counters are never written.
FirstPhaseNotIngested ==
    \A r \in FirstPhaseRuns :
        /\ Counters(runs[r]) = <<NullCount, NullCount, NullCount>>
        /\ \A m \in 1 .. Len(mentions) : mentions[m].job_run_id # r

\* the SUCCEEDED webhook of a first-phase run whose dataset has items with
\* content was handled to the end, the chaining succeeded or failed
C19_Witness ==
    \E r \in FirstPhaseRuns :
        /\ runs[r].status = "completed"
        /\ \E i \in 1 .. Len(apifyRuns[runs[r].apify_run_id].items) :
              apifyRuns[runs[r].apify_run_id].items[i].text
        /\ \/ "comments_scraper_triggered" \in runs[r].metadata
           \/ "comments_scraper_error" \in runs[r].metadata
        /\ \A w \in WebhookSlots : hw[w].pc = "idle"
        /\ response.op = "handleWebhook" /\ response.result = "success"

\* C20: when the chaining for a completed first-phase run finds no usable
\* reference (empty dataset, no item with a usable URL) or the start of the
\* dependent run fails, an error is recorded in the metadata of the parent
\* run, the parent stays completed, no mention is ingested for it and the
\* callback returns success. Checked for the requests whose return writes
\* without a store error and links no dependent run.
C20_ChainingFailureRecorded ==
    [][\A w \in WebhookSlots :
         (/\ Returns(w)
          /\ hw[w].pc \in {"w_process", "c_err"}
          /\ IsFirstPhase(w)
          /\ storeFaults' = storeFaults)
         => /\ "comments_scraper_error" \in runs'[hw[w].run].metadata
            /\ runs'[hw[w].run].status = runs[hw[w].run].status
            /\ \A m \in 1 .. Len(mentions') :
                  mentions'[m].job_run_id # hw[w].run
            /\ response'.result = "success"]_vars

\* C21: normalizing the same list of raw items twice gives every item the
\* same source id both times, also an item without native id, URL and title:
\* no derived id depends on when normalization is called. After a pass has
\* written its mentions, the table holds the keys that normalizing the same
\* dataset at any other time gives.
C21_IdsIndependentOfTime ==
    [][\A w \in WebhookSlots :
         (/\ hw[w].pc = "w_process"
          /\ hw'[w].pc = "w_stats"
          /\ hw'[w].ins > 0)
         => \A now \in Clock :
              KeySet(transformApifyDataToMentions(
                        apifyRuns[hw[w].handle].items,
                        runs[hw[w].run].tenant_id,
                        jobs[runs[hw[w].run].job_id].source_type,
                        hw[w].run, now))
                \subseteq KeySet(mentions')]_vars

\* the step a callback is waiting to take
TaskStep(k) ==
    \/ StartImmediate(k)
    \/ FindByMentionId(k) \/ AnalyzeSentiment(k) \/ Delay(k)
    \/ CreateSentimentAnalysis(k)
    \/ TaggingBrand(k) \/ GetMentionTag(k) \/ TagMention(k)
    \/ StoreMentionTag(k) \/ TagDelay(k)

\* C22: a failure in the sentiment task or in the tagging task never changes
\* the status, error message or counters of a run, never removes or changes a
\* mention row, and never keeps the other task from running: every step of a
\* callback leaves runs and mentions as they are, and every callback that has
\* not ended can take its next step whatever the others did (a pending one
\* once those scheduled before it have started).
EnrichmentIsBestEffort ==
    /\ [][tasks' # tasks => runs' = runs /\ mentions' = mentions]_vars
    /\ [](\A k \in TaskIds :
            (/\ tasks[k].pc # "done"
             /\ \A x \in 1 .. k - 1 : tasks[x].pc # "pending")
            => ENABLED TaskStep(k))

\* both callbacks of the second pass have ended, the sentiment batch after a
\* failed provider call and the tagging batch after a failed id, and the run
\* and the mentions are what the pass left
C22_Witness ==
    /\ Len(tasks) = 4
    /\ tasks[3].pc = "done" /\ \E x \in 1 .. Len(tasks[3].results) :
                                   tasks[3].results[x] = FailedResult
    /\ tasks[4].pc = "done" /\ \E x \in 1 .. Len(tasks[4].results) :
                                   tasks[4].results[x] = "failed"
    /\ runs[1].status = "completed" /\ runs[1].error_message = ""
    /\ Len(mentions) >= 2

\* C23: in the sentiment batch and in the tagging batch the items are taken
\* one at a time in list order, and between two consecutive AI calls of a
\* batch there is a delay step, whatever the outcome of the earlier call:
\* after the step that ends an AI call, or that stores its result, the batch
\* is on its way to the delay or has no item left to call the AI for.
C23_DelayBetweenCalls ==
    [][\A k \in TaskIds :
         /\ (tasks[k].pc = "analyze" /\ tasks'[k] # tasks[k])
              => tasks'[k].pc \in {"delay", "store"}
         /\ (tasks[k].pc = "t_tag" /\ tasks'[k] # tasks[k])
              => tasks'[k].pc \in {"t_store", "done"}
         /\ (tasks[k].pc = "t_store" /\ tasks'[k] # tasks[k])
              => tasks'[k].pc \in {"t_delay", "done"}]_vars

ChainingSteps == {"c_insert", "c_parent", "c_err"}

\* the runs whose metadata marks them as dependent runs
DependentRuns == {r \in RunIds : "is_comments_scraper" \in runs[r].metadata}

\* C24: chaining has depth at most two: when a run marked as a dependent run
\* completes, its dataset is ingested and the handling never starts another
\* external run and never creates another run row. The handling of a
\* dependent run is never in a step of the chaining, and no step of it adds
\* a provider run or a run row.
DependentRunNeverChains ==
    /\ [](\A w \in WebhookSlots :
            hw[w].pc \in ChainingSteps
              => "is_comments_scraper" \notin hw[w].md)
    /\ [][\A w \in WebhookSlots :
            (/\ "is_comments_scraper" \in hw[w].md
             /\ hw'[w].pc # hw[w].pc)
            => /\ Len(runs') = Len(runs)
               /\ Len(apifyRuns') = Len(apifyRuns)]_vars

\* the SUCCEEDED webhook of a dependent run was handled to the end and its
\* dataset is ingested
C24_Witness ==
    \E r \in DependentRuns :
        /\ runs[r].status = "completed"
        /\ \E m \in 1 .. Len(mentions) : mentions[m].job_run_id = r
        /\ "data_processed" \in runs[r].metadata
        /\ \A w \in WebhookSlots : hw[w].pc = "idle"

\* C25: bulkTagMentions over N ids never raises, visits every id once and in
\* order, skips an id that already has a tag without an AI call (forceRetag
\* false), goes on after a failed AI call or tag store, and its counts add up
\* to N. Checked part: the check of an id that has a tag row ends with the id
\* skipped.
C25_TaggedIsSkipped ==
    [][\A k \in TaskIds :
         (/\ tasks[k].pc = "t_check"
          /\ tasks'[k] # tasks[k]
          /\ \E x \in 1 .. Len(tags) :
                tags[x].mention_id = immediates[k].mentions[tasks[k].i])
         => tasks'[k].results = Append(tasks[k].results, "skipped")]_vars

\* the pipeline can be in the state the chaining starts from
ChainStateReached == ChainState

\* the provider runs started by the chaining
CommentsApifyRuns ==
    {h \in 1 .. Len(apifyRuns) : apifyRuns[h].actor = "instagram_comments"}

\* C26: for a first-phase run at most one dependent external run is ever
\* started and at most one dependent run row ever names it as parent, however
\* many succeeded callbacks are delivered for it: there are never more
\* dependent provider runs, nor more dependent run rows, than first-phase
\* runs.
C26_OneDependentRun ==
    /\ Cardinality(CommentsApifyRuns) <= Cardinality(FirstPhaseRuns)
    /\ Cardinality(DependentRuns) <= Cardinality(FirstPhaseRuns)

\* the starting operation of provider run h has finished
StartFinished(h) ==
    /\ ~(tj.pc # "idle" /\ tj.apify = h)
    /\ \A w \in WebhookSlots : ~(hw[w].pc # "idle" /\ hw[w].crun = h)

\* C27: every external run the provider accepted, from triggerJob or from
\* chaining, is, once the operation that started it has finished, referenced
\* by a run row through its handle or has had an abort attempted on it, also
\* when the insert or update that should record the handle fails.
C27_AcceptedRunIsTracked ==
    \A h \in 1 .. Len(apifyRuns) :
        StartFinished(h) => KnownHandle(h) \/ apifyRuns[h].abortAttempted

\* C28: a completion callback for a run the provider accepted from triggerJob
\* is never answered 'ignored' when the trigger succeeds, under every
\* interleaving of the update that records the handle with the arrival of
\* the callback: no triggerJob call returns its run after the provider's
\* callback for that run was answered 'ignored'.
C28_CallbackNeverIgnored ==
    [][(tj.pc = "t_update" /\ tj'.pc = "idle") => ~tj.missed]_vars

\* C29: after a succeeded callback has been handled to the end, the metadata
\* of the run holds the receipt annotations written with the status update,
\* the later processing or chaining annotations and the keys it had before:
\* a later metadata write of the same handling never drops a key an earlier
\* one wrote. Checked at the return of a handling whose last write succeeded.
C29_MetadataKept ==
    [][\A w \in WebhookSlots :
         (/\ Returns(w)
          /\ hw[w].event = "ACTOR.RUN.SUCCEEDED"
          /\ hw[w].pc \in {"w_meta", "w_err", "c_parent", "c_err"}
          /\ storeFaults' = storeFaults)
         => (ReceiptKeys \cup hw[w].md) \subseteq
                runs'[hw[w].run].metadata]_vars

\* the pipeline can be in the state the run to the end starts from
LiveStateReached == TriggeredState(1)

\* C30: every run that reaches running eventually reaches completed or
\* failed, for each of the four ways the provider's run can end (succeeded,
\* failed, aborted, timed out), when the provider ends the run and delivers
\* every callback it was subscribed to at the start and the store is
\* available.
C30_RunningEndsTerminal ==
    \A r \in 1 .. MaxRuns :
        (r \in RunIds /\ runs[r].status = "running")
            ~> (r \in RunIds /\ runs[r].status \in Terminal)
====
